---- MODULE Spec2Model ----
(***************************************************************************)
(* Model of PubSubSubscriber (subscriber.go): the startup of Run, the      *)
(* per-message callback that Run hands to Receive, and the helpers retry,  *)
(* dlq and getRetries.  The transport (topics, the subscription backlog,   *)
(* redelivery of unacknowledged messages) and the producer are the         *)
(* collaborators the callback talks to.                                    *)
(***************************************************************************)
EXTENDS Integers, Sequences, FiniteSets, Bags, TLC

(* ------------------------------ bounds --------------------------------- *)

\* Logical units of work that outside publishers put on the primary topic.
MaxUnits == 1

\* maxRetries is configured (WithMaxRetries); the model draws it from 0..MaxRetriesBound.
MaxRetriesBound == 2

\* Longest "retries" attribute value that getRetries is applied to on its own.
MaxValueLen == 3

\* Calls of createSubscriptionIfNotExists for the same IDs.
MaxCallers == 2

(* --------------------------- configuration ----------------------------- *)

topicID == "orders"

\* WithMaxOutstandingMessages(1): the transport runs one callback at a time.
maxOutstandingMessages == 1

\* NewPubSubSubscriber: subscriber.maxRetriesAttribute = "retries"
maxRetriesAttribute == "retries"

\* dlq: fmt.Sprintf("%s_dlq", s.topicID)
dlqTopic == topicID \o "_dlq"

Topics == {topicID, dlqTopic}

Workers == 1..maxOutstandingMessages

Units == 1..MaxUnits

Callers == 1..MaxCallers

(* ----------------------- strconv.Atoi / strconv.Itoa ------------------- *)
\* Attribute values are strings, modelled as sequences of one-character strings.

Digit(c) ==
    CASE c = "0" -> 0 [] c = "1" -> 1 [] c = "2" -> 2 [] c = "3" -> 3 [] c = "4" -> 4
      [] c = "5" -> 5 [] c = "6" -> 6 [] c = "7" -> 7 [] c = "8" -> 8 [] c = "9" -> 9
      [] OTHER -> -1

RECURSIVE ParseDigits_SkipNonDigits(_, _)
ParseDigits_SkipNonDigits(s, n) ==
    IF s = <<>> THEN n
    ELSE IF Digit(Head(s)) < 0 THEN ParseDigits_SkipNonDigits(Tail(s), n)
    ELSE ParseDigits_SkipNonDigits(Tail(s), n * 10 + Digit(Head(s)))

RECURSIVE ParseDigits(_, _)
\* The digit loop of Atoi: n = n*10 + ch for each character; -1 on a non-digit.
ParseDigits(s, n) ==
    IF s = <<>> THEN n
    ELSE IF Digit(Head(s)) < 0 THEN -1
    ELSE ParseDigits(Tail(s), n * 10 + Digit(Head(s)))

\* strconv.Atoi: an optional sign, then decimal digits.  On a syntax error the
\* returned int is 0 (the error itself is discarded by the caller).
Atoi(s) ==
    IF s = <<>> THEN 0
    ELSE LET signed == Head(s) \in {"-", "+"}
             digits == IF signed THEN Tail(s) ELSE s
             n      == IF digits = <<>> THEN -1 ELSE ParseDigits(digits, 0)
         IN  IF n < 0 THEN 0
             ELSE IF Head(s) = "-" THEN 0 - n ELSE n

DigitChar(d) ==
    CASE d = 0 -> "0" [] d = 1 -> "1" [] d = 2 -> "2" [] d = 3 -> "3" [] d = 4 -> "4"
      [] d = 5 -> "5" [] d = 6 -> "6" [] d = 7 -> "7" [] d = 8 -> "8" [] d = 9 -> "9"

RECURSIVE FormatDigits(_)
FormatDigits(n) ==
    IF n < 10 THEN <<DigitChar(n)>>
    ELSE Append(FormatDigits(n \div 10), DigitChar(n % 10))

\* strconv.Itoa
Itoa(n) == IF n < 0 THEN <<"-">> \o FormatDigits(0 - n) ELSE FormatDigits(n)

(* ------------------------------ payloads ------------------------------- *)
\* handleType is a struct with one field "a".  Payload bytes are strings.

CanonicalJSON == "{\"a\":1}"

ExtraFieldJSON == "{\"a\":1,\"x\":0}"

NotJSON == "not-json"

Payloads == {CanonicalJSON, ExtraFieldJSON, NotJSON}

NoBody == [a |-> 0]

\* json.Unmarshal(message.Data, body) into the configured type: unknown
\* fields are dropped, anything that is not a JSON object is an error.
Unmarshal(data) ==
    CASE data = CanonicalJSON  -> [ok |-> TRUE, body |-> [a |-> 1]]
      [] data = ExtraFieldJSON -> [ok |-> TRUE, body |-> [a |-> 1]]
      [] OTHER                 -> [ok |-> FALSE, body |-> NoBody]

\* The producer's serialization of a deserialized body (JSON of the struct).
MarshalBody(body) == IF body.a = 1 THEN CanonicalJSON ELSE "{\"a\":0}"

\* The producer's serialization of a byte-slice payload: JSON encodes a byte
\* slice as a base64 string in quotes.
MarshalBytes(data) ==
    CASE data = CanonicalJSON  -> "\"eyJhIjoxfQ==\""
      [] data = ExtraFieldJSON -> "\"eyJhIjoxLCJ4IjowfQ==\""
      [] data = NotJSON        -> "\"bm90LWpzb24=\""
      [] OTHER                 -> "\"\""

(* ------------------------------ messages ------------------------------- *)

NoAttributes == <<>>

\* Attribute maps that outside publishers attach to a new message.
BornAttributes ==
    { NoAttributes,
      [k \in {maxRetriesAttribute} |-> <<"2">>],
      [k \in {maxRetriesAttribute} |-> <<"a", "b", "c">>],
      [k \in {maxRetriesAttribute} |-> <<"-", "1">>],
      [k \in {maxRetriesAttribute, "trace"} |-> IF k = "trace" THEN <<"x">> ELSE <<"1">>] }

\* What outside publishers send: payload and attribute map.
BornInputs ==
    {<<CanonicalJSON, a>> : a \in BornAttributes \ {[k \in {maxRetriesAttribute} |-> <<"a", "b", "c">>]}}
        \cup {<<ExtraFieldJSON, [k \in {maxRetriesAttribute} |-> <<"a", "b", "c">>]>>,
              <<NotJSON, [k \in {maxRetriesAttribute} |-> <<"1">>]>>}

\* A message as a topic stores it; unit names the logical unit it belongs to.
StoredMessage(u, data, attrs) == [unit |-> u, Data |-> data, Attributes |-> attrs]

\* A message as the callback gets it: the transport hands over a nil map when
\* the message has no attributes.
Delivered(m) ==
    [unit |-> m.unit, Data |-> m.Data, Attributes |-> m.Attributes,
     AttributesNil |-> (DOMAIN m.Attributes = {})]

(* ------------------------------- state --------------------------------- *)

VARIABLES
    maxRetries,    \* PubSubSubscriber.maxRetries
    runState,      \* Run: "init", "receiving", "returned_err", "crashed"
    subExists,     \* the transport holds the subscription
    topicExists,   \* the topics the transport holds
    topics,        \* per topic, the bag of messages it accepted
    backlog,       \* the subscription's messages waiting for delivery
    w,             \* per worker, the callback invocation it runs
    units,         \* per logical unit, its history
    prov,          \* per caller, its call of createSubscriptionIfNotExists
    probe          \* one message that the retry-count helpers are applied to

vars == <<maxRetries, runState, subExists, topicExists, topics, backlog, w, units, prov, probe>>

\* A worker with no callback running.
Idle ==
    [pc |-> "idle",
     message |-> Delivered(StoredMessage(0, "", NoAttributes)),
     orig |-> Delivered(StoredMessage(0, "", NoAttributes)),
     body |-> NoBody,
     err |-> "nil",          \* the callback's err: "nil", "unmarshal", "handler"
     panicking |-> FALSE,    \* a panic is unwinding the callback
     deferred |-> FALSE,     \* the deferred function is registered
     outcome |-> "none",     \* what the handler did: "ok", "err", "panic"
     prior |-> 0,            \* getRetries of the message as delivered
     sent |-> "none",        \* result of the retry/dlq call after a handler error
     acks |-> 0,             \* calls of message.Ack()
     readRetries |-> FALSE,  \* getRetries was called
     trace |-> <<>>,         \* the callback's calls, in order
     pubs |-> <<>>]          \* its PublishWihAttribrutes calls, in order

\* The history of a logical unit: how often the handler ran for it, the
\* retry counts republished for it, its dead-letter messages, and whether
\* every handler run returned an error and every publish succeeded (clean).
\* A unit whose message was left unacknowledged is redelivered without end;
\* its history is not kept.
NewUnit ==
    [born |-> FALSE, retired |-> FALSE, redelivered |-> FALSE, bornAttributes |-> NoAttributes,
     runs |-> 0, republished |-> <<>>, dlq |-> 0, clean |-> TRUE]

Redelivered(h) ==
    [NewUnit EXCEPT !.born = TRUE, !.redelivered = TRUE, !.clean = FALSE,
                    !.bornAttributes = h.bornAttributes]

\* The history h after one more event, which update describes.
Track(h, update) == IF h.redelivered THEN h ELSE update

\* A caller that has not called createSubscriptionIfNotExists.
NotCalled ==
    [pc |-> "idle",
     err |-> "nil",            \* the error returned
     subscriber |-> "none",    \* the *pubsub.Subscription returned: "handle" or "nil"
     sawAbsent |-> FALSE,      \* Exists answered false
     attempted |-> {},         \* the creation calls made: "topic", "subscription"
     created |-> {},           \* those that created the resource
     afterOk |-> FALSE]        \* called after another call had returned without error

\* No message under the retry-count helpers.
NoProbe ==
    [pc |-> "none",
     message |-> Delivered(StoredMessage(0, "", NoAttributes)),
     orig |-> Delivered(StoredMessage(0, "", NoAttributes)),
     retries |-> 0,
     crashed |-> FALSE]

Init ==
    /\ prov = [c \in Callers |-> NotCalled]
    /\ probe = NoProbe
    /\ maxRetries \in 0..MaxRetriesBound
    /\ runState = "init"
    /\ subExists \in BOOLEAN
    /\ topicExists \in (IF subExists THEN {{topicID}} ELSE {{}, {topicID}})
    /\ topics = [t \in Topics |-> EmptyBag]
    /\ backlog = EmptyBag
    /\ w = [i \in Workers |-> Idle]
    /\ units = [u \in Units |-> NewUnit]

(* --------------------------- Run: startup ------------------------------ *)

\* createSubscriptionIfNotExists: subscriber.Exists.  An error of the check
\* comes back with the non-nil handle, so Run returns it as an error.
CheckExists ==
    /\ runState = "init"
    /\ \E failed \in BOOLEAN :
          runState' = IF failed THEN "returned_err"
                      ELSE IF subExists THEN "receiving"
                      ELSE "create_topic"
    /\ UNCHANGED <<prov, probe, maxRetries, subExists, topicExists, topics, backlog, w, units>>

\* createTopicIfNotExists(client, topicID).  On an error
\* createSubscriptionIfNotExists returns (nil, err), and Run writes
\* subscriber.ReceiveSettings through the nil pointer before it looks at err.
CreateTopic ==
    /\ runState = "create_topic"
    /\ \E failed \in BOOLEAN :
          IF failed
          THEN /\ runState' = "crashed"
               /\ UNCHANGED topicExists
          ELSE /\ runState' = "create_sub"
               /\ topicExists' = topicExists \cup {topicID}
    /\ UNCHANGED <<prov, probe, maxRetries, subExists, topics, backlog, w, units>>

\* client.CreateSubscription; the same (nil, err) return on an error.
CreateSubscription ==
    /\ runState = "create_sub"
    /\ \E failed \in BOOLEAN :
          IF failed \/ subExists
          THEN /\ runState' = "crashed"
               /\ UNCHANGED subExists
          ELSE /\ runState' = "receiving"
               /\ subExists' = TRUE
    /\ UNCHANGED <<prov, probe, maxRetries, topicExists, topics, backlog, w, units>>

(* ------------------------- outside publishers -------------------------- *)

\* A logical unit is born: a publisher puts its first message on the primary
\* topic, and the subscription keeps it for delivery.
Birth(u, in) ==
    /\ subExists
    /\ topicID \in topicExists
    /\ ~units[u].born
    /\ \A v \in Units : v < u => units[v].born
    /\ LET m == StoredMessage(u, in[1], in[2])
       IN  /\ topics' = [topics EXCEPT ![topicID] = @ (+) SetToBag({m})]
           /\ backlog' = backlog (+) SetToBag({m})
    /\ units' = [units EXCEPT ![u] = [@ EXCEPT !.born = TRUE, !.bornAttributes = in[2]]]
    /\ UNCHANGED <<prov, probe, maxRetries, runState, subExists, topicExists, w>>

(* ----------------------------- the producer ---------------------------- *)

\* PublishWihAttribrutes(topic, payload, attributes) with the result ok: the
\* serialized payload and the attribute map become a message of the topic.
\* A publish to the primary topic reaches the subscription's backlog.
Published(tps, topic, u, bytes, attrs, ok) ==
    IF ok THEN [tps EXCEPT ![topic] = @ (+) SetToBag({StoredMessage(u, bytes, attrs)})]
    ELSE tps

Enqueued(bl, topic, u, bytes, attrs, ok) ==
    IF ok /\ topic = topicID /\ subExists
    THEN bl (+) SetToBag({StoredMessage(u, bytes, attrs)})
    ELSE bl

\* The record the callback's history keeps of one publish call.
PubCall(topic, bytes, attrs, ok) ==
    [topic |-> topic, Data |-> bytes, Attributes |-> attrs, ok |-> ok]

(* ------------------------------ getRetries ----------------------------- *)

\* getRetries: 0 unless the attribute is there, and then what Atoi returns.
getRetries(message) ==
    IF ~message.AttributesNil /\ maxRetriesAttribute \in DOMAIN message.Attributes
    THEN Atoi(message.Attributes[maxRetriesAttribute])
    ELSE 0

\* getRetries replaces a nil attribute map by an empty one.
AfterGetRetries(message) == [message EXCEPT !.AttributesNil = FALSE]

SetAttribute_FreshMap(m, k, v) == [x \in {k} |-> v]

\* m with key k set to v.
SetAttribute(m, k, v) ==
    [x \in DOMAIN m \cup {k} |-> IF x = k THEN v ELSE m[x]]

(* ----------------------- the per-message callback ---------------------- *)

\* e.Error() as the value of the "error" attribute.
ErrorText(err) == <<err \o " error">>

\* subscriber.Receive calls the callback with a message of the backlog.
Receive(i) ==
    /\ runState = "receiving"
    /\ w[i].pc = "idle"
    /\ \E m \in BagToSet(backlog) :
          /\ backlog' = backlog (-) SetToBag({m})
          /\ w' = [w EXCEPT ![i] = [Idle EXCEPT !.pc = "unmarshal",
                                                !.message = Delivered(m),
                                                !.orig = Delivered(m),
                                                !.prior = getRetries(Delivered(m))]]
    /\ UNCHANGED <<prov, probe, maxRetries, runState, subExists, topicExists, topics, units>>

\* body := reflect.New(s.handleType).Interface(); err := json.Unmarshal(message.Data, body).
\* With err nil the callback goes on to register the deferred function.
UnmarshalStep(i) ==
    /\ w[i].pc = "unmarshal"
    /\ LET r == Unmarshal(w[i].message.Data)
       IN  w' = [w EXCEPT ![i] =
                   IF r.ok
                   THEN [@ EXCEPT !.pc = "handle", !.body = r.body, !.deferred = TRUE]
                   ELSE [@ EXCEPT !.pc = "dlq_unmarshal", !.err = "unmarshal"]]
    /\ UNCHANGED <<prov, probe, maxRetries, runState, subExists, topicExists, topics, backlog, units>>

\* s.dlq(message, e): createTopicIfNotExists(dlq), then the publish of
\* message.Data with the one attribute "error".  Either call can fail; the
\* callback moves to pc next, and main says that the result is the one the
\* switch after a handler error logs.
Dlq(i, next, main) ==
    \E created \in BOOLEAN, ok \in BOOLEAN :
       /\ ~created => ~ok
       /\ LET d     == w[i]
              u     == d.message.unit
              bytes == MarshalBytes(d.message.Data)
              attrs == [k \in {"error"} |-> ErrorText(d.err)]
          IN  /\ topicExists' = IF created THEN topicExists \cup {dlqTopic} ELSE topicExists
              /\ topics' = Published(topics, dlqTopic, u, bytes, attrs, ok)
              /\ backlog' = Enqueued(backlog, dlqTopic, u, bytes, attrs, ok)
              /\ w' = [w EXCEPT ![i] =
                         [@ EXCEPT !.pc = next,
                                   !.sent = IF main THEN (IF ok THEN "ok" ELSE "failed") ELSE @,
                                   !.trace = Append(@, "dlq"),
                                   !.pubs = IF created
                                            THEN Append(@, PubCall(dlqTopic, bytes, attrs, ok))
                                            ELSE @]]
              /\ units' = [units EXCEPT ![u] =
                             Track(@, [@ EXCEPT !.dlq = IF ok THEN @ + 1 ELSE @,
                                                !.clean = @ /\ ok])]
       /\ UNCHANGED <<prov, probe, maxRetries, runState, subExists>>

\* The unmarshal error branch: s.dlq(message, err).
DlqUnmarshal(i) ==
    /\ w[i].pc = "dlq_unmarshal"
    /\ Dlq(i, "ack_unmarshal", FALSE)

\* message.Ack().
Acked(d, next) == [d EXCEPT !.pc = next, !.acks = @ + 1, !.trace = Append(@, "ack")]

AfterUnmarshalError_FallsThrough == "handle"

\* The unmarshal error branch ends in return: the deferred function is not
\* registered yet, so the callback is over.
AfterUnmarshalError == "done"

\* The unmarshal error branch: message.Ack(); return.
AckUnmarshal(i) ==
    /\ w[i].pc = "ack_unmarshal"
    /\ w' = [w EXCEPT ![i] = Acked(@, AfterUnmarshalError)]
    /\ UNCHANGED <<prov, probe, maxRetries, runState, subExists, topicExists, topics, backlog, units>>

HandlerOutcomes == {"ok", "err", "panic"}

\* Where the callback goes after err = s.handler(body): a panic unwinds into
\* the deferred function before err is assigned; a returned error enters
\* the if err != nil block; otherwise the final Ack is next.
AfterHandler(o) ==
    CASE o = "panic" -> "deferred"
      [] o = "err"   -> "classify"
      [] OTHER       -> "ack"

\* err = s.handler(body).
Handle(i, o) ==
    /\ w[i].pc = "handle"
    /\ LET u == w[i].message.unit
       IN  /\ w' = [w EXCEPT ![i] =
                      [@ EXCEPT !.pc = AfterHandler(o),
                                !.outcome = o,
                                !.err = CASE o = "err" -> "handler"
                                          [] o = "ok"  -> "nil"
                                          [] OTHER     -> @,
                                !.panicking = (o = "panic"),
                                !.trace = Append(@, "handler")]]
           /\ units' = [units EXCEPT ![u] =
                          Track(@, [@ EXCEPT !.runs = @ + 1, !.clean = @ /\ o = "err"])]
    /\ UNCHANGED <<prov, probe, maxRetries, runState, subExists, topicExists, topics, backlog>>

RetriesExhausted_StrictlyGreater(message) == getRetries(message) > maxRetries

\* switch s.getRetries(message) >= s.maxRetries: the case taken.
RetriesExhausted(message) == getRetries(message) >= maxRetries

\* The switch after a handler error.
Classify(i) ==
    /\ w[i].pc = "classify"
    /\ w' = [w EXCEPT ![i] =
               [@ EXCEPT !.pc = IF RetriesExhausted(w[i].message) THEN "dlq_exhausted" ELSE "retry",
                         !.message = AfterGetRetries(@),
                         !.readRetries = TRUE]]
    /\ UNCHANGED <<prov, probe, maxRetries, runState, subExists, topicExists, topics, backlog, units>>

\* case true: s.dlq(message, err).
DlqExhausted(i) ==
    /\ w[i].pc = "dlq_exhausted"
    /\ Dlq(i, "ack", TRUE)

NextRetries_NoIncrement(message) == getRetries(message)

\* retry: retries := s.getRetries(message); retries++.
NextRetries(message) == getRetries(message) + 1

\* case false: s.retry(message, body) writes the new count into the message's
\* own attribute map and publishes body with that map to the primary topic.
Retry(i) ==
    /\ w[i].pc = "retry"
    /\ \E ok \in BOOLEAN :
          LET d     == w[i]
              u     == d.message.unit
              attrs == SetAttribute(d.message.Attributes, maxRetriesAttribute,
                                    Itoa(NextRetries(d.message)))
              bytes == MarshalBody(d.body)
          IN  /\ topics' = Published(topics, topicID, u, bytes, attrs, ok)
              /\ backlog' = Enqueued(backlog, topicID, u, bytes, attrs, ok)
              /\ w' = [w EXCEPT ![i] =
                         [@ EXCEPT !.pc = "ack",
                                   !.message = [AfterGetRetries(@) EXCEPT !.Attributes = attrs],
                                   !.readRetries = TRUE,
                                   !.sent = IF ok THEN "ok" ELSE "failed",
                                   !.trace = Append(@, "retry"),
                                   !.pubs = Append(@, PubCall(topicID, bytes, attrs, ok))]]
              /\ units' = [units EXCEPT ![u] =
                             Track(@, [@ EXCEPT !.republished =
                                                    IF ok THEN Append(@, attrs[maxRetriesAttribute]) ELSE @,
                                                !.clean = @ /\ ok])]
    /\ UNCHANGED <<prov, probe, maxRetries, runState, subExists, topicExists>>

\* The end of the callback's body: message.Ack(), and the deferred function runs.
Ack(i) ==
    /\ w[i].pc = "ack"
    /\ w' = [w EXCEPT ![i] = Acked(@, "deferred")]
    /\ UNCHANGED <<prov, probe, maxRetries, runState, subExists, topicExists, topics, backlog, units>>

DeferredTakesDlq_Always(d) == TRUE

\* if recover(); err != nil: the condition of the deferred function, read
\* after recover() has stopped a panic.
DeferredTakesDlq(d) == d.err # "nil"

\* The deferred function: recover(), then its condition.
Deferred(i) ==
    /\ w[i].pc = "deferred"
    /\ w' = [w EXCEPT ![i] =
               [@ EXCEPT !.pc = IF DeferredTakesDlq(w[i]) THEN "dlq_deferred" ELSE "done",
                         !.panicking = FALSE,
                         !.trace = Append(@, "recover")]]
    /\ UNCHANGED <<prov, probe, maxRetries, runState, subExists, topicExists, topics, backlog, units>>

\* The deferred function: s.dlq(message, err), its result dropped.
DlqDeferred(i) ==
    /\ w[i].pc = "dlq_deferred"
    /\ Dlq(i, "ack_deferred", FALSE)

\* The deferred function: message.Ack().
AckDeferred(i) ==
    /\ w[i].pc = "ack_deferred"
    /\ w' = [w EXCEPT ![i] = Acked(@, "done")]
    /\ UNCHANGED <<prov, probe, maxRetries, runState, subExists, topicExists, topics, backlog, units>>

\* The callback has returned.  A message that was never acknowledged stays
\* with the subscription, and the transport delivers it again.
Return(i) ==
    /\ w[i].pc = "done"
    /\ LET d == w[i]
           u == d.orig.unit
           m == StoredMessage(u, d.orig.Data, d.orig.Attributes)
       IN  /\ backlog' = IF d.acks = 0 THEN backlog (+) SetToBag({m}) ELSE backlog
           /\ units' = [units EXCEPT ![u] = IF d.acks = 0 THEN Redelivered(@) ELSE @]
    /\ w' = [w EXCEPT ![i] = Idle]
    /\ UNCHANGED <<prov, probe, maxRetries, runState, subExists, topicExists, topics>>

\* Unit u has a message waiting or in a callback.
Live(u) ==
    \/ \E m \in BagToSet(backlog) : m.unit = u
    \/ \E i \in Workers : w[i].pc # "idle" /\ w[i].orig.unit = u

\* Unit u was born and nothing of it is left to deliver.
Finished(u) == units[u].born /\ ~units[u].retired /\ ~Live(u)

\* The bag b without the messages of unit u.
WithoutUnit(b, u) == [m \in {x \in DOMAIN b : x.unit # u} |-> b[m]]

\* The topics' retention drops the messages of a finished unit.
Retire(u) ==
    /\ Finished(u)
    /\ units' = [units EXCEPT ![u] = [NewUnit EXCEPT !.born = TRUE, !.retired = TRUE]]
    /\ topics' = [t \in Topics |-> WithoutUnit(topics[t], u)]
    /\ UNCHANGED <<prov, probe, maxRetries, runState, subExists, topicExists, backlog, w>>

(* --------------------------- specification ----------------------------- *)

Next ==
    \/ CheckExists
    \/ CreateTopic
    \/ CreateSubscription
    \/ \E u \in Units, in \in BornInputs : Birth(u, in)
    \/ \E i \in Workers : Receive(i)
    \/ \E i \in Workers : UnmarshalStep(i)
    \/ \E i \in Workers : DlqUnmarshal(i)
    \/ \E i \in Workers : AckUnmarshal(i)
    \/ \E i \in Workers, o \in HandlerOutcomes : Handle(i, o)
    \/ \E i \in Workers : Classify(i)
    \/ \E i \in Workers : DlqExhausted(i)
    \/ \E i \in Workers : Retry(i)
    \/ \E i \in Workers : Ack(i)
    \/ \E i \in Workers : Deferred(i)
    \/ \E i \in Workers : DlqDeferred(i)
    \/ \E i \in Workers : AckDeferred(i)
    \/ \E i \in Workers : Return(i)
    \/ \E u \in Units : Retire(u)

Spec == Init /\ [][Next]_vars

(* ------------------ createSubscriptionIfNotExists, called -------------- *)
(* ------------------ more than once for the same IDs -------------------- *)

ExistsReturns_OnlyOnError(failed, exists) == failed

\* if err != nil || exists { return subscriber, err }
ExistsReturns(failed, exists) == failed \/ exists

\* A caller enters createSubscriptionIfNotExists.
ProvCall(c) ==
    /\ prov[c].pc = "idle"
    /\ prov' = [prov EXCEPT ![c] =
                  [@ EXCEPT !.pc = "exists",
                            !.afterOk = \E d \in Callers \ {c} :
                                            prov[d].pc = "returned" /\ prov[d].err = "nil"]]
    /\ UNCHANGED <<probe, maxRetries, runState, subExists, topicExists, topics, backlog, w, units>>

\* subscriber.Exists and the return that follows it: the handle comes back
\* with the error of the check, or without error when the subscription is there.
ProvExists(c) ==
    /\ prov[c].pc = "exists"
    /\ \E failed \in BOOLEAN :
          prov' = [prov EXCEPT ![c] =
                     IF ExistsReturns(failed, subExists)
                     THEN [@ EXCEPT !.pc = "returned",
                                    !.subscriber = "handle",
                                    !.err = IF failed THEN "exists_failed" ELSE "nil"]
                     ELSE [@ EXCEPT !.pc = "topic_exists", !.sawAbsent = TRUE]]
    /\ UNCHANGED <<probe, maxRetries, runState, subExists, topicExists, topics, backlog, w, units>>

\* createTopicIfNotExists: the existence check of the topic.
ProvTopicExists(c) ==
    /\ prov[c].pc = "topic_exists"
    /\ \E failed \in BOOLEAN :
          prov' = [prov EXCEPT ![c] =
                     IF failed
                     THEN [@ EXCEPT !.pc = "returned", !.subscriber = "nil",
                                    !.err = "topic_exists_failed"]
                     ELSE IF topicID \in topicExists
                     THEN [@ EXCEPT !.pc = "create_sub"]
                     ELSE [@ EXCEPT !.pc = "create_topic"]]
    /\ UNCHANGED <<probe, maxRetries, runState, subExists, topicExists, topics, backlog, w, units>>

\* createTopicIfNotExists: client.CreateTopic, which the transport refuses
\* for a topic it already holds; an error comes back as (nil, err).
ProvCreateTopic(c) ==
    /\ prov[c].pc = "create_topic"
    /\ \E failed \in BOOLEAN :
          IF topicID \in topicExists \/ failed
          THEN /\ prov' = [prov EXCEPT ![c] =
                             [@ EXCEPT !.pc = "returned", !.subscriber = "nil",
                                       !.attempted = @ \cup {"topic"},
                                       !.err = IF topicID \in topicExists
                                               THEN "topic_already_exists"
                                               ELSE "create_topic_failed"]]
               /\ UNCHANGED topicExists
          ELSE /\ prov' = [prov EXCEPT ![c] =
                             [@ EXCEPT !.pc = "create_sub",
                                       !.attempted = @ \cup {"topic"},
                                       !.created = @ \cup {"topic"}]]
               /\ topicExists' = topicExists \cup {topicID}
    /\ UNCHANGED <<probe, maxRetries, runState, subExists, topics, backlog, w, units>>

\* client.CreateSubscription, which the transport refuses for a subscription
\* it already holds; an error comes back as (nil, err).
ProvCreateSubscription(c) ==
    /\ prov[c].pc = "create_sub"
    /\ \E failed \in BOOLEAN :
          IF subExists \/ failed
          THEN /\ prov' = [prov EXCEPT ![c] =
                             [@ EXCEPT !.pc = "returned", !.subscriber = "nil",
                                       !.attempted = @ \cup {"subscription"},
                                       !.err = IF subExists
                                               THEN "subscription_already_exists"
                                               ELSE "create_subscription_failed"]]
               /\ UNCHANGED subExists
          ELSE /\ prov' = [prov EXCEPT ![c] =
                             [@ EXCEPT !.pc = "returned", !.subscriber = "handle",
                                       !.attempted = @ \cup {"subscription"},
                                       !.created = @ \cup {"subscription"}]]
               /\ subExists' = TRUE
    /\ UNCHANGED <<probe, maxRetries, runState, topicExists, topics, backlog, w, units>>

ProvisionInit ==
    /\ prov = [c \in Callers |-> NotCalled]
    /\ probe = NoProbe
    /\ maxRetries = 0
    /\ runState = "init"
    /\ subExists \in BOOLEAN
    /\ topicExists \in (IF subExists THEN {{topicID}} ELSE {{}, {topicID}})
    /\ topics = [t \in Topics |-> EmptyBag]
    /\ backlog = EmptyBag
    /\ w = [i \in Workers |-> Idle]
    /\ units = [u \in Units |-> NewUnit]

ProvisionNext ==
    \/ \E c \in Callers : ProvCall(c)
    \/ \E c \in Callers : ProvExists(c)
    \/ \E c \in Callers : ProvTopicExists(c)
    \/ \E c \in Callers : ProvCreateTopic(c)
    \/ \E c \in Callers : ProvCreateSubscription(c)

ProvisionSpec == ProvisionInit /\ [][ProvisionNext]_vars

(* ------------------ the retry count of one message --------------------- *)

\* The characters that attribute values are built from.
ValueChars == {"0", "1", "7", "-", "+", "a"}

RECURSIVE ValuesUpTo(_)
\* Every attribute value of at most n characters.
ValuesUpTo(n) ==
    IF n = 0 THEN {<<>>}
    ELSE LET shorter == ValuesUpTo(n - 1)
         IN  shorter \cup {Append(v, c) : v \in shorter, c \in ValueChars}

\* The attribute maps a delivered message can carry: none, one without the
\* "retries" key, and "retries" with every value, alone or beside another key.
ProbeAttributes ==
    {NoAttributes, [k \in {"trace"} |-> <<"x">>]}
        \cup {[k \in {maxRetriesAttribute} |-> v] : v \in ValuesUpTo(MaxValueLen)}
        \cup {[k \in {maxRetriesAttribute, "trace"} |-> IF k = "trace" THEN <<"x">> ELSE v] :
                  v \in ValuesUpTo(MaxValueLen)}

\* The delivered messages: a map without entries comes as a nil map or as an
\* empty one.
ProbeMessages ==
    {Delivered(StoredMessage(1, CanonicalJSON, a)) : a \in ProbeAttributes}
        \cup {[Delivered(StoredMessage(1, CanonicalJSON, NoAttributes)) EXCEPT !.AttributesNil = FALSE]}

\* The switch after a handler error reads the count: s.getRetries(message).
ProbeGetRetries ==
    /\ probe.pc = "start"
    /\ probe' = [probe EXCEPT !.pc = IF RetriesExhausted(probe.message) THEN "dlq" ELSE "retry",
                              !.retries = getRetries(probe.message),
                              !.message = AfterGetRetries(@)]
    /\ UNCHANGED <<prov, maxRetries, runState, subExists, topicExists, topics, backlog, w, units>>

\* retry: the count is read again, incremented and written into the map; a
\* write into a nil map panics.
ProbeRetry ==
    /\ probe.pc = "retry"
    /\ LET m == AfterGetRetries(probe.message)
       IN  probe' = [probe EXCEPT
                        !.pc = "republished",
                        !.crashed = m.AttributesNil,
                        !.message = [m EXCEPT !.Attributes =
                                        SetAttribute(@, maxRetriesAttribute, Itoa(NextRetries(m)))]]
    /\ UNCHANGED <<prov, maxRetries, runState, subExists, topicExists, topics, backlog, w, units>>

\* dlq: the message goes to the dead-letter topic with a map of its own.
ProbeDlq ==
    /\ probe.pc = "dlq"
    /\ probe' = [probe EXCEPT !.pc = "dead_lettered"]
    /\ UNCHANGED <<prov, maxRetries, runState, subExists, topicExists, topics, backlog, w, units>>

RetriesInit ==
    /\ prov = [c \in Callers |-> NotCalled]
    /\ probe \in {[NoProbe EXCEPT !.pc = "start", !.message = m, !.orig = m] : m \in ProbeMessages}
    /\ maxRetries \in 0..MaxRetriesBound
    /\ runState = "receiving"
    /\ subExists = TRUE
    /\ topicExists = {topicID}
    /\ topics = [t \in Topics |-> EmptyBag]
    /\ backlog = EmptyBag
    /\ w = [i \in Workers |-> Idle]
    /\ units = [u \in Units |-> NewUnit]

RetriesNext ==
    \/ ProbeGetRetries
    \/ ProbeRetry
    \/ ProbeDlq

RetriesSpec == RetriesInit /\ [][RetriesNext]_vars

(* ------------------------- reading a delivery -------------------------- *)

\* The callback of worker i has returned.
Done(i) == w[i].pc = "done"

\* The delivered payload deserializes into the configured type.
Deserializes(i) == Unmarshal(w[i].orig.Data).ok

\* The publish calls of worker i's callback to topic t, as positions of pubs.
PubsTo(i, t) == {k \in 1..Len(w[i].pubs) : w[i].pubs[k].topic = t}

\* Those of them the transport accepted.
AcceptedTo(i, t) == {k \in PubsTo(i, t) : w[i].pubs[k].ok}

\* How often the callback's history holds call c.
Calls(i, c) == Cardinality({k \in 1..Len(w[i].trace) : w[i].trace[k] = c})

\* Every topic creation and every publish of the callback succeeded.
AllPublishesSucceeded(i) ==
    /\ \A k \in 1..Len(w[i].pubs) : w[i].pubs[k].ok
    /\ Calls(i, "dlq") = Cardinality(PubsTo(i, dlqTopic))

\* The message a publish call put on its topic.
MessageOf(i, k) ==
    StoredMessage(w[i].orig.unit, w[i].pubs[k].Data, w[i].pubs[k].Attributes)

(* -------------------------------- C1 ----------------------------------- *)

\* C1 as stated: a delivery that deserializes, whose handler returns an error
\* and whose retry count is below maxRetries, puts exactly one new message with
\* retry count prior + 1 on the primary topic, and the original is acknowledged.
C1_Original ==
    \A i \in Workers :
        (Done(i) /\ Deserializes(i) /\ w[i].outcome = "err" /\ w[i].prior < maxRetries)
            => /\ Cardinality(AcceptedTo(i, topicID)) = 1
               /\ \A k \in AcceptedTo(i, topicID) :
                     w[i].pubs[k].Attributes[maxRetriesAttribute] = Itoa(w[i].prior + 1)
               /\ w[i].acks >= 1

\* C1 (amended): such a delivery makes exactly one publish call to the primary
\* topic, with the re-serialized body and the attribute "retries" set to
\* prior + 1; when the call succeeds the message is on the topic; whether it
\* succeeds or not, the original message is acknowledged.
C1_RetryPublishesIncrementedCount ==
    \A i \in Workers :
        (Done(i) /\ Deserializes(i) /\ w[i].outcome = "err" /\ w[i].prior < maxRetries)
            => /\ Cardinality(PubsTo(i, topicID)) = 1
               /\ \A k \in PubsTo(i, topicID) :
                     /\ w[i].pubs[k].Attributes[maxRetriesAttribute] = Itoa(w[i].prior + 1)
                     /\ Atoi(w[i].pubs[k].Attributes[maxRetriesAttribute]) = w[i].prior + 1
                     /\ w[i].pubs[k].Data = MarshalBody(Unmarshal(w[i].orig.Data).body)
                     /\ w[i].pubs[k].ok => BagIn(MessageOf(i, k), topics[topicID])
               /\ w[i].acks >= 1

\* A handler error below the maximum was republished and accepted.
C1_Witness ==
    \E i \in Workers :
        /\ Done(i) /\ w[i].outcome = "err" /\ w[i].prior < maxRetries
        /\ AcceptedTo(i, topicID) # {}
        /\ w[i].acks >= 1

(* -------------------------------- C2 ----------------------------------- *)

\* C2: a delivery whose handler returns an error and whose retry count is at
\* or above maxRetries publishes exactly one message to <topicID>_dlq and none
\* to the primary topic (stated for the deliveries whose publishes all succeed).
C2_ExhaustedPublishesOneDeadLetter ==
    \A i \in Workers :
        (Done(i) /\ w[i].outcome = "err" /\ w[i].prior >= maxRetries /\ AllPublishesSucceeded(i))
            => /\ Cardinality(PubsTo(i, dlqTopic)) = 1
               /\ PubsTo(i, topicID) = {}

(* -------------------------------- C3 ----------------------------------- *)

\* C3: a handler panic does not leave the callback, and the delivery is
\* dead-lettered and acknowledged.
C3_PanicDeadLetteredAndAcked ==
    \A i \in Workers :
        (Done(i) /\ w[i].outcome = "panic")
            => /\ ~w[i].panicking
               /\ Calls(i, "dlq") >= 1
               /\ w[i].acks >= 1

(* -------------------------------- C4 ----------------------------------- *)

\* C4: a delivery whose handler panics publishes nothing to the primary topic
\* and goes to the dead-letter path.
C4_PanicNotRetried ==
    \A i \in Workers :
        (Done(i) /\ w[i].outcome = "panic")
            => /\ PubsTo(i, topicID) = {}
               /\ Calls(i, "retry") = 0
               /\ Calls(i, "dlq") >= 1

(* -------------------------------- C5 ----------------------------------- *)

\* C5: a delivery whose payload fails deserialization puts the original raw
\* payload bytes with an "error" attribute on <topicID>_dlq and is acknowledged
\* exactly once (stated for the deliveries whose publishes all succeed).
C5_UnmarshalFailureDeadLettersRawBytes ==
    \A i \in Workers :
        (Done(i) /\ ~Deserializes(i) /\ AllPublishesSucceeded(i))
            => /\ \E m \in BagToSet(topics[dlqTopic]) :
                     /\ m.Data = w[i].orig.Data
                     /\ "error" \in DOMAIN m.Attributes
               /\ w[i].acks = 1

(* -------------------------------- C6 ----------------------------------- *)

\* C6: for a delivery whose payload fails deserialization the handler is never
\* invoked, nothing is published to the primary topic, and the retry count is
\* neither read nor written: the message's attributes stay as delivered.
C6_UnmarshalFailureIsTerminal ==
    \A i \in Workers :
        (w[i].pc # "idle" /\ ~Deserializes(i))
            => /\ Calls(i, "handler") = 0
               /\ w[i].outcome = "none"
               /\ PubsTo(i, topicID) = {}
               /\ Calls(i, "retry") = 0
               /\ ~w[i].readRetries
               /\ w[i].message = w[i].orig

\* A payload that fails deserialization, carrying a retry count, was
\* dead-lettered and acknowledged.
C6_Witness ==
    \E i \in Workers :
        /\ Done(i) /\ ~Deserializes(i)
        /\ maxRetriesAttribute \in DOMAIN w[i].orig.Attributes
        /\ AcceptedTo(i, dlqTopic) # {}
        /\ w[i].acks = 1

(* -------------------------------- C7 ----------------------------------- *)

\* C7: whichever path the callback took, the message is acknowledged by the
\* time the callback has returned (nothing acknowledges it afterwards).
C7_AcknowledgedOnEveryPath ==
    \A i \in Workers : Done(i) => w[i].acks >= 1

(* -------------------------------- C8 ----------------------------------- *)

\* C8 as stated: every handler invocation is on a message whose retry count is
\* below maxRetries (stated for maxRetries >= 1 and for the messages of units
\* born without a "retries" attribute, whose counts the subscriber itself wrote).
C8_Original ==
    \A i \in Workers :
        (/\ Calls(i, "handler") >= 1
         /\ maxRetries >= 1
         /\ maxRetriesAttribute \notin DOMAIN units[w[i].orig.unit].bornAttributes)
            => w[i].prior < maxRetries

\* C8 (amended): the handler is invoked on every message that deserializes,
\* whatever its retry count; after a handler error a message at or above the
\* maximum takes the dead-letter path and is never republished to the primary
\* topic, so every republished message carries a retry count <= maxRetries.
C8_ExhaustedNeverRepublished ==
    \A i \in Workers :
        /\ (Done(i) /\ Deserializes(i)) => Calls(i, "handler") = 1
        /\ \A k \in PubsTo(i, topicID) :
              /\ w[i].prior < maxRetries
              /\ Atoi(w[i].pubs[k].Attributes[maxRetriesAttribute]) <= maxRetries
        /\ (Done(i) /\ w[i].outcome = "err" /\ w[i].prior >= maxRetries)
              => /\ Calls(i, "retry") = 0
                 /\ Calls(i, "dlq") >= 1

\* A message at the maximum was handled, failed and took the dead-letter path.
C8_Witness ==
    \E i \in Workers :
        /\ Done(i) /\ w[i].outcome = "err" /\ w[i].prior >= maxRetries
        /\ Calls(i, "handler") = 1
        /\ Calls(i, "dlq") >= 1
        /\ PubsTo(i, topicID) = {}

(* -------------------------------- C9 ----------------------------------- *)

\* The retry counts "1", ..., "n".
CountsUpTo(n) == [k \in 1..n |-> Itoa(k)]

\* C9: a unit born without a "retries" attribute, whose handler returned an
\* error on every attempt and whose publishes all succeeded, ends with the
\* retry counts 1..maxRetries republished in order, exactly one dead-letter
\* message and maxRetries + 1 handler runs.
C9_Lifecycle ==
    \A u \in Units :
        (/\ Finished(u)
         /\ units[u].clean
         /\ maxRetriesAttribute \notin DOMAIN units[u].bornAttributes)
            => /\ units[u].republished = CountsUpTo(maxRetries)
               /\ units[u].runs = maxRetries + 1
               /\ units[u].dlq = 1

(* -------------------------------- C10 ---------------------------------- *)

\* C10: when the retry or dead-letter publish after a handler error fails, the
\* message is still acknowledged and that attempt puts no message for the unit
\* on any topic.
C10_FailedPublishLosesUnit ==
    \A i \in Workers :
        (Done(i) /\ w[i].sent = "failed")
            => /\ w[i].acks >= 1
               /\ AcceptedTo(i, topicID) = {}
               /\ AcceptedTo(i, dlqTopic) = {}

(* -------------------------------- C11 ---------------------------------- *)

\* C11: a failed startup (existence check, topic creation or subscription
\* creation) ends with Run returning the error, never with a crash, and no
\* callback ever runs.
C11_StartupFailsClosed ==
    /\ runState # "crashed"
    /\ runState = "returned_err" => \A i \in Workers : w[i].pc = "idle"

(* -------------------------------- C13 ---------------------------------- *)

\* C13: a delivery whose handler returns without error publishes nothing, to
\* the primary topic or to the dead-letter topic, and is acknowledged.
C13_SuccessOnlyAcks ==
    \A i \in Workers :
        (Done(i) /\ w[i].outcome = "ok")
            => /\ w[i].pubs = <<>>
               /\ Calls(i, "dlq") = 0
               /\ Calls(i, "retry") = 0
               /\ w[i].acks = 1
               /\ w[i].trace = <<"handler", "ack", "recover">>

\* C13: a handler returned without error and its callback is over.
C13_Witness ==
    \E i \in Workers : Done(i) /\ w[i].outcome = "ok" /\ w[i].acks = 1

(* -------------------------------- C15 ---------------------------------- *)

\* C15: the retry count of every delivered message is non-negative, and no
\* unit (whose deliveries were all acknowledged) gets more than
\* maxRetries + 1 handler runs.
C15_RetryCountNonNegative ==
    /\ \A i \in Workers : w[i].pc # "idle" => w[i].prior >= 0
    /\ \A u \in Units : units[u].runs <= maxRetries + 1

(* -------------------------------- C16 ---------------------------------- *)

\* C16 as stated: after processing, the delivered message's attribute map and
\* payload are as they were at delivery.
C16_Original ==
    \A i \in Workers : Done(i) => w[i].message = w[i].orig

\* C16 (amended): the delivered message's payload is never changed; its
\* attribute map is unchanged unless the handler returned an error; then
\* getRetries replaces a nil map by an empty one, and the retry path writes the
\* incremented count into the delivered message's own map, under the key
\* "retries" only, and publishes that map.
C16_OnlyRetryWritesAttributes ==
    \A i \in Workers :
        w[i].pc # "idle" =>
            LET m == w[i].message
                o == w[i].orig
            IN  /\ m.Data = o.Data
                /\ w[i].outcome # "err" => m = o
                /\ m.AttributesNil # o.AttributesNil => (w[i].readRetries /\ ~m.AttributesNil)
                /\ DOMAIN m.Attributes \subseteq DOMAIN o.Attributes \cup {maxRetriesAttribute}
                /\ \A k \in DOMAIN o.Attributes \ {maxRetriesAttribute} :
                      k \in DOMAIN m.Attributes /\ m.Attributes[k] = o.Attributes[k]
                /\ m.Attributes # o.Attributes
                      => /\ Calls(i, "retry") = 1
                         /\ m.Attributes[maxRetriesAttribute] = Itoa(w[i].prior + 1)
                         /\ \A k \in PubsTo(i, topicID) : w[i].pubs[k].Attributes = m.Attributes

\* C16: a retry wrote the new count into a delivered message that carries
\* another attribute as well.
C16_Witness ==
    \E i \in Workers :
        /\ Done(i) /\ Calls(i, "retry") = 1
        /\ "trace" \in DOMAIN w[i].orig.Attributes
        /\ w[i].message.Attributes # w[i].orig.Attributes

(* -------------------------------- C17 ---------------------------------- *)

\* C17: one delivery makes at most one outbound publish: it is not both
\* republished and dead-lettered, and not dead-lettered twice.
C17_AtMostOnePublish ==
    \A i \in Workers :
        /\ Len(w[i].pubs) <= 1
        /\ Calls(i, "retry") + Calls(i, "dlq") <= 1

(* -------------------------------- C18 ---------------------------------- *)

\* C18: within a delivery every retry or dead-letter call comes after the
\* handler has returned (when the payload deserializes) and before the
\* acknowledgment; none comes after it.
C18_AckIsLast ==
    \A i \in Workers :
        \A k \in 1..Len(w[i].trace) :
            w[i].trace[k] \in {"retry", "dlq"}
                => /\ \A j \in 1..(k - 1) : w[i].trace[j] # "ack"
                   /\ Deserializes(i) => \E j \in 1..(k - 1) : w[i].trace[j] = "handler"

(* -------------------------------- C19 ---------------------------------- *)

\* C19: message.Ack() is called at most once per delivered message.
C19_AckAtMostOnce ==
    \A i \in Workers : w[i].acks <= 1

(* -------------------------------- C12 ---------------------------------- *)

\* Caller c's call has returned.
Returned(c) == prov[c].pc = "returned"

\* The resources that the calls created, as (caller, resource) pairs.
Creations(r) == {c \in Callers : r \in prov[c].created}

\* C12: a call of createSubscriptionIfNotExists made after another call for
\* the same IDs has returned without error, and whose own existence check
\* does not fail, returns the existing subscription without error and makes
\* no creation call; one topic and one subscription exist, and no resource
\* was created twice.
C12_ProvisioningIdempotent ==
    \A c \in Callers :
        (Returned(c) /\ prov[c].afterOk /\ prov[c].err # "exists_failed")
            => /\ prov[c].err = "nil"
               /\ prov[c].subscriber = "handle"
               /\ prov[c].attempted = {}
               /\ ~prov[c].sawAbsent
               /\ subExists /\ topicID \in topicExists
               /\ Cardinality(Creations("subscription")) <= 1
               /\ Cardinality(Creations("topic")) <= 1

\* C12: a first call created the subscription, and a second call made after
\* it has returned.
C12_Witness ==
    \E c, d \in Callers :
        /\ c # d
        /\ Returned(c) /\ prov[c].err = "nil" /\ "subscription" \in prov[c].created
        /\ Returned(d) /\ prov[d].afterOk /\ prov[d].err = "nil"

(* -------------------------------- C14 ---------------------------------- *)

\* s is an optional sign followed by one or more decimal digits.
IsDecimalInteger(s) ==
    LET digits == IF s # <<>> /\ s[1] \in {"-", "+"} THEN Tail(s) ELSE s
    IN  /\ digits # <<>>
        /\ \A k \in 1..Len(digits) :
              digits[k] \in {"0", "1", "2", "3", "4", "5", "6", "7", "8", "9"}

\* The message under the helpers came without a usable retry count: a nil or
\* empty map, no "retries" key, or a value that is not a decimal integer.
NoUsableCount ==
    \/ probe.orig.AttributesNil
    \/ maxRetriesAttribute \notin DOMAIN probe.orig.Attributes
    \/ ~IsDecimalInteger(probe.orig.Attributes[maxRetriesAttribute])

\* C14: for a message whose attribute map is absent, lacks "retries" or holds
\* a value that is not a decimal integer, getRetries yields 0 and nothing
\* crashes; the message is treated as a first attempt: it is republished with
\* retries = "1" unless maxRetries is 0.
C14_MalformedCountIsZero ==
    (probe.pc \notin {"none", "start"} /\ NoUsableCount)
        => /\ probe.retries = 0
           /\ ~probe.crashed
           /\ ~probe.message.AttributesNil
           /\ probe.pc \in {"dlq", "dead_lettered"} <=> maxRetries = 0
           /\ probe.pc = "republished"
                 => probe.message.Attributes[maxRetriesAttribute] = <<"1">>

\* C14: a message whose "retries" value starts with a digit and is not a
\* decimal integer has been republished as a first retry.
C14_Witness ==
    /\ probe.pc = "republished"
    /\ ~probe.orig.AttributesNil
    /\ maxRetriesAttribute \in DOMAIN probe.orig.Attributes
    /\ Len(probe.orig.Attributes[maxRetriesAttribute]) >= 2
    /\ Digit(probe.orig.Attributes[maxRetriesAttribute][1]) > 0
    /\ ~IsDecimalInteger(probe.orig.Attributes[maxRetriesAttribute])

(* -------------------------------- C20 ---------------------------------- *)

\* C20: when two calls both find the subscription absent, the transport's
\* "already exists" answer to the later CreateSubscription is not returned as
\* an error,
\* and one subscription exists afterwards.
C20_LoserNotFatal ==
    \A c \in Callers :
        (Returned(c) /\ prov[c].sawAbsent)
            => /\ prov[c].err # "subscription_already_exists"
               /\ (\A d \in Callers : Returned(d) /\ prov[d].err = "nil") => subExists

====
